---- MODULE Spec2Model ----
(***************************************************************************)
(* A model of LogDevice's topology / replication core:                     *)
(*   - RebuildingPlan (logdevice/server/rebuilding/RebuildingPlan.h): the  *)
(*     epoch-interval map epochsToRead and its operations;                 *)
(*   - ServerConfig (logdevice/common/configuration/ServerConfig.cpp): the *)
(*     constructor's derived indices, the node lookups and                 *)
(*     validStorageSet.                                                    *)
(* Seven specifications share the module: SpecPlan (the rebuilding plan),  *)
(* Spec / SpecWeights (the config snapshot, with two families of node maps)*)
(* SpecStorageSet (validStorageSet as a pure function of its inputs),      *)
(* SpecDerive (copy and the derive operations, with readers of the         *)
(* receiver), SpecJson (fromJson / toJson) and SpecCache (toString).       *)
(***************************************************************************)
EXTENDS Integers, Sequences, FiniteSets, TLC

VARIABLES
  \* ---- RebuildingPlan ----
  epochsToRead,   \* RebuildingPlan::epochsToRead: sorted sequence of [lo, hi, md]
  planAborted,    \* the process died on a fatal invariant violation
  planOp,         \* the last addEpochRange / clearEpochRange / lookup call
  lookupRet,      \* what the last lookup returned
  inserted,       \* history: the non-empty ranges accepted since the last clear
  itPos,          \* the reader's iterator: 0 = none, k = next segment to yield
  itOut,          \* what the current iteration has yielded so far
  prevOut,        \* what the previous complete iteration yielded
  prevValid,      \* prevOut is a complete iteration of the current plan
  \* ---- ServerConfig ----
  nodesIn,        \* the NodesConfig handed to the constructor
  phase,          \* "none" | "constructed" | "crashed"
  nodesConfig_,   \* ServerConfig::nodesConfig_.getNodes(): index -> Node
  addrToIndex_,   \* ServerConfig::addrToIndex_: address -> index
  sequencersConfig_, \* ServerConfig::sequencersConfig_: [nodes, weights]
  err,            \* the thread-local err
  call,           \* the last lookup call and its arguments
  ret,            \* its return value
  outNode,        \* the NodeID the caller passed to getNodeID by pointer
  \* ---- validStorageSet ----
  vssArgs,        \* validStorageSet's cluster_nodes, storage_set, replication
  vssStrict,      \* validStorageSet's strict
  vssDone,        \* validStorageSet has returned
  vssRet,         \* its result
  \* ---- derive operations ----
  receiver,       \* the snapshot the derive operations and the readers are called on
  receiver0,      \* history: the receiver as it was constructed
  derived,        \* the snapshot the last derive operation returned
  deriveOp,       \* the last derive operation and its argument
  readerCall,     \* the last lookup a reader made on the receiver
  readerRet,      \* its result
  \* ---- fromJson / toJson ----
  parsed,         \* the JSON document handed to fromJson: key -> value
  jsonPhase,      \* "none" | "parsed" | "failed" | "emitted"
  jsonConfig,     \* the snapshot fromJson returned
  jsonErr,        \* the thread-local err after fromJson
  jsonTrace,      \* history: the section parsers fromJson invoked, in order
  json_all,       \* the document toJson returned: key -> value
  \* ---- toString cache ----
  main_to_string_cache_,
  all_to_string_cache_,
  compressed_main_to_string_cache_,
  compressed_all_to_string_cache_,
  last_to_string_logs_config_version_,
  toStringCall,   \* the last toString call and its arguments
  toStringRet,    \* the text it returned
  regenerated,    \* the last call ran toStringImpl
  prevWithLogs    \* history: the logs config of the previous with-logs call

planVars == <<epochsToRead, planAborted, planOp, lookupRet, inserted,
              itPos, itOut, prevOut, prevValid>>
cfgVars == <<nodesIn, phase, nodesConfig_, addrToIndex_, sequencersConfig_,
             err, call, ret, outNode>>
vssVars == <<vssArgs, vssStrict, vssDone, vssRet>>
drvVars == <<receiver, receiver0, derived, deriveOp, readerCall, readerRet>>
jsonVars == <<parsed, jsonPhase, jsonConfig, jsonErr, jsonTrace, json_all>>
cacheVars == <<main_to_string_cache_, all_to_string_cache_,
               compressed_main_to_string_cache_, compressed_all_to_string_cache_,
               last_to_string_logs_config_version_,
               toStringCall, toStringRet, regenerated, prevWithLogs>>
vars == <<planVars, cfgVars, vssVars, drvVars, jsonVars, cacheVars>>

(***************************************************************************)
(* Bounds                                                                  *)
(***************************************************************************)
MaxEpoch == 3
Epochs == 0..MaxEpoch
Metas == {"M1", "M2"}       \* distinct shared_ptr<EpochMetaData> values
NoMeta == "none"

(***************************************************************************)
(* RebuildingPlan                                                          *)
(***************************************************************************)
\* right_open_interval<epoch_t::raw_type>: [lo, hi)
ContainsClosed(iv, e) == iv.lo <= e /\ e <= iv.hi
Contains(iv, e) == iv.lo <= e /\ e < iv.hi

IsEmptyInterval(iv) == iv.lo >= iv.hi

Overlaps(a, b) ==
  /\ ~IsEmptyInterval(a)
  /\ ~IsEmptyInterval(b)
  /\ a.lo < b.hi
  /\ b.lo < a.hi

\* interval_map keeps its segments ordered by std::less on the interval bounds
InsertAtEnd(m, seg) == Append(m, seg)
InsertSorted(m, seg) ==
  LET k == Cardinality({i \in 1..Len(m) : m[i].lo < seg.lo})
  IN  SubSeq(m, 1, k) \o <<seg>> \o SubSeq(m, k + 1, Len(m))

\* interval_map (not split_interval_map) joins touching segments whose
\* associated values are equal
RECURSIVE Join(_)
Join(m) ==
  IF Len(m) < 2 THEN m
  ELSE IF m[1].hi = m[2].lo /\ m[1].md = m[2].md
       THEN Join(<<[lo |-> m[1].lo, hi |-> m[2].hi, md |-> m[1].md]>>
                 \o SubSeq(m, 3, Len(m)))
       ELSE <<m[1]>> \o Join(Tail(m))

\* epochsToRead.find(e): the value of the segment containing e
Find(m, e) ==
  IF \E k \in 1..Len(m) : Contains(m[k], e)
  THEN m[CHOOSE k \in 1..Len(m) : Contains(m[k], e)].md
  ELSE NoMeta

\* the last call on the plan; afterClear and dropped are history: an add that
\* directly follows a clear, and the segments that clear discarded
NoOp == [op |-> "none", since |-> 0, until |-> 0, md |-> NoMeta, e |-> 0,
         afterClear |-> FALSE, dropped |-> 0]
AddOp(s, u, m, prev) ==
  [NoOp EXCEPT !.op = "add", !.since = s, !.until = u, !.md = m,
               !.afterClear = (prev.op = "clear"),
               !.dropped = IF prev.op = "clear" THEN prev.dropped ELSE 0]
ClearOp(n) == [NoOp EXCEPT !.op = "clear", !.dropped = n]
LookupOp(e) == [NoOp EXCEPT !.op = "lookup", !.e = e]

ResetIteration ==
  /\ itPos' = 0
  /\ itOut' = <<>>
  /\ prevOut' = <<>>
  /\ prevValid' = FALSE

\* an overlapping insert is accepted: the parts of the new interval that are
\* free are inserted beside the existing segments
addEpochRangeNoCheck(since, until, metadata) ==
  /\ ~planAborted
  /\ since <= until
  /\ planOp' = AddOp(since, until, metadata, planOp)
  /\ LET seg == [lo |-> since, hi |-> until, md |-> metadata]
         free == {e \in Epochs : Contains(seg, e) /\ Find(epochsToRead, e) = NoMeta}
         Piece(e) == [lo |-> e, hi |-> e + 1,
                      md |-> IF e \in free THEN metadata ELSE Find(epochsToRead, e)]
         RECURSIVE Build(_)
         Build(e) == IF e > MaxEpoch THEN <<>>
                     ELSE IF Piece(e).md = NoMeta THEN Build(e + 1)
                     ELSE <<Piece(e)>> \o Build(e + 1)
     IN  /\ epochsToRead' = Join(Build(0))
         /\ inserted' = inserted \cup {seg}
  /\ planAborted' = FALSE
  /\ ResetIteration
  /\ UNCHANGED <<lookupRet, cfgVars, vssVars,
                 drvVars, jsonVars, cacheVars>>

\* RebuildingPlan::addEpochRange(since, until, metadata)
addEpochRange(since, until, metadata) ==
  /\ ~planAborted
  /\ since <= until
  /\ planOp' = AddOp(since, until, metadata, planOp)
  /\ LET seg == [lo |-> since, hi |-> until, md |-> metadata]
     IN  IF \E k \in 1..Len(epochsToRead) : Overlaps(epochsToRead[k], seg)
         THEN \* fatal invariant violation: the operation aborts
              /\ planAborted' = TRUE
              /\ UNCHANGED <<epochsToRead, inserted>>
         ELSE /\ planAborted' = FALSE
              /\ epochsToRead' =
                   IF IsEmptyInterval(seg) THEN epochsToRead
                   ELSE Join(InsertSorted(epochsToRead, seg))
              /\ inserted' =
                   IF IsEmptyInterval(seg) THEN inserted ELSE inserted \cup {seg}
  /\ ResetIteration
  /\ UNCHANGED <<lookupRet, cfgVars, vssVars,
                 drvVars, jsonVars, cacheVars>>

\* RebuildingPlan::clearEpochRange(): epochsToRead.clear()
clearKeepsFirst(m) == IF Len(m) = 0 THEN m ELSE <<m[1]>>
cleared(m) == <<>>

clearEpochRange ==
  /\ ~planAborted
  /\ planOp' = ClearOp(Len(epochsToRead))
  /\ epochsToRead' = cleared(epochsToRead)
  /\ inserted' = {}
  /\ ResetIteration
  /\ UNCHANGED <<planAborted, lookupRet, cfgVars, vssVars,
                 drvVars, jsonVars, cacheVars>>

\* lookup of the metadata covering an epoch
lookup(e) ==
  /\ ~planAborted
  /\ planOp' = LookupOp(e)
  /\ lookupRet' = Find(epochsToRead, e)
  /\ UNCHANGED <<epochsToRead, planAborted, inserted,
                 itPos, itOut, prevOut, prevValid, cfgVars, vssVars,
                 drvVars, jsonVars, cacheVars>>

\* the reader (re)starts an iteration: epochsToRead.begin()
iterBegin ==
  /\ ~planAborted
  /\ itPos' = 1
  /\ itOut' = <<>>
  /\ IF itPos = Len(epochsToRead) + 1
     THEN prevOut' = itOut /\ prevValid' = TRUE
     ELSE UNCHANGED <<prevOut, prevValid>>
  /\ UNCHANGED <<epochsToRead, planAborted, planOp, lookupRet, inserted,
                 cfgVars, vssVars,
                 drvVars, jsonVars, cacheVars>>

\* the reader takes the next (interval, metadata) pair: *it++
iterNext ==
  /\ ~planAborted
  /\ itPos \in 1..Len(epochsToRead)
  /\ itOut' = Append(itOut, epochsToRead[itPos])
  /\ itPos' = itPos + 1
  /\ UNCHANGED <<epochsToRead, planAborted, planOp, lookupRet, inserted,
                 prevOut, prevValid, cfgVars, vssVars,
                 drvVars, jsonVars, cacheVars>>

InitPlan ==
  /\ epochsToRead = <<>>
  /\ planAborted = FALSE
  /\ planOp = NoOp
  /\ lookupRet = NoMeta
  /\ inserted = {}
  /\ itPos = 0
  /\ itOut = <<>>
  /\ prevOut = <<>>
  /\ prevValid = FALSE

NextPlan ==
  \/ \E s \in Epochs, u \in Epochs, m \in Metas : addEpochRange(s, u, m)
  \/ clearEpochRange
  \/ \E e \in 0..(MaxEpoch + 1) : lookup(e)
  \/ iterBegin
  \/ iterNext

(***************************************************************************)
(* ServerConfig: nodes, construction, lookups                              *)
(***************************************************************************)
MaxNodeIdx == 2
MaxGen == 2
MaxWeight == 3
NodeIdxs == 0..MaxNodeIdx
Addrs == {"a1", "a2", "a3"}
Gens == 1..MaxGen
Locations == {<<1, 1>>, <<1, 2>>, <<2, 1>>}   \* <<row, rack>>

\* the fields of ServerConfig::Node the modelled code reads
Node(a, g, r, w, st, loc) ==
  [address |-> a, generation |-> g, roles |-> r, sequencer_weight |-> w,
   storage_state |-> st, location |-> loc]
NullNode == Node("nullptr", 0, {}, 0, "NONE", <<>>)

NodeID(i, g) == [index |-> i, generation |-> g]
InvalidNodeID == NodeID(-1, 0)        \* a default-constructed NodeID

\* NodeID::isNodeID(): the id refers to a node
isNodeID(id) == id.index >= 0

hasRole(node, role) == role \in node.roles
\* Node::isSequencingEnabled(): the node is sequencer-capable
isSequencingEnabled(node) == hasRole(node, "SEQUENCER")
\* Node::getSequencerWeight(): the weight of a node with the sequencer role
getSequencerWeight(node) ==
  IF hasRole(node, "SEQUENCER") THEN node.sequencer_weight ELSE 0
\* Node::isWritableStorageNode(): STORAGE role and a state that permits writes
isWritableStorageNode(node) ==
  hasRole(node, "STORAGE") /\ node.storage_state = "READ_WRITE"

\* ld_check(expr): a violated check is fatal, the operation does not continue
ld_check(expr) == expr

SetMax(S) == CHOOSE x \in S : \A y \in S : y <= x
SetMin(S) == CHOOSE x \in S : \A y \in S : x <= y

\* NodesConfig::getMaxNodeIdx(): the largest node index, 0 for no nodes
getMaxNodeIdx(nodes) == IF DOMAIN nodes = {} THEN 0 ELSE SetMax(DOMAIN nodes)

\* a double weight, kept exact as a reduced fraction <<numerator, denominator>>
RECURSIVE GCD(_, _)
GCD(a, b) == IF b = 0 THEN a ELSE GCD(b, a % b)
Frac(n, d) == IF n = 0 THEN <<0, 1>> ELSE <<n \div GCD(n, d), d \div GCD(n, d)>>
FracLess(x, y) == x[1] * y[2] < y[1] * x[2]
FracDiv(x, y) == Frac(x[1] * y[2], x[2] * y[1])

\* auto insert_result = addrToIndex_.insert({node.address, i});
\* ld_check(insert_result.second);
AddrInsertUnchecked(a2i, address, i) == TRUE
AddrInsertChecked(a2i, address, i) == ld_check(address \notin DOMAIN a2i)

\* the constructor's loop over nodesConfig_.getNodes(); acc.ok is false
\* once a check has failed
RECURSIVE ConstructLoop(_, _, _)
ConstructLoop(nodes, todo, acc) ==
  IF todo = {} \/ ~acc.ok THEN acc
  ELSE
    LET i == SetMin(todo)
        node == nodes[i]
        fresh == node.address \notin DOMAIN acc.addrToIndex
        a2i == IF fresh THEN acc.addrToIndex @@ (node.address :> i)
               ELSE acc.addrToIndex
        seq == isSequencingEnabled(node)
    IN  ConstructLoop(nodes, todo \ {i},
          [ok |-> AddrInsertChecked(acc.addrToIndex, node.address, i),
           addrToIndex |-> a2i,
           nodes |-> IF seq
                     THEN [acc.nodes EXCEPT ![i + 1] = NodeID(i, node.generation)]
                     ELSE acc.nodes,
           weights |-> IF seq
                       THEN [acc.weights EXCEPT ![i + 1] = Frac(getSequencerWeight(node), 1)]
                       ELSE acc.weights])

\* std::max_element over the weights, then weight /= max_weight when max > 0
MaxFrac(weights) ==
  weights[CHOOSE k \in 1..Len(weights) :
            \A j \in 1..Len(weights) : ~FracLess(weights[k], weights[j])]
NormalizeWeightsBySum(weights) ==
  LET RECURSIVE Sum(_)
      Sum(k) == IF k = 0 THEN 0 ELSE weights[k][1] + Sum(k - 1)
      total == Sum(Len(weights))
  IN  IF total > 0
      THEN [k \in 1..Len(weights) |-> FracDiv(weights[k], Frac(total, 1))]
      ELSE weights
NormalizeWeights(weights) ==
  LET max_weight == MaxFrac(weights)
  IN  IF Len(weights) > 0 /\ FracLess(<<0, 1>>, max_weight)
      THEN [k \in 1..Len(weights) |-> FracDiv(weights[k], max_weight)]
      ELSE weights

\* ServerConfig::ServerConfig(...): the derived indices of a node map
Constructor(nodes) ==
  LET max_node == getMaxNodeIdx(nodes)
      acc0 == [ok |-> TRUE,
               addrToIndex |-> << >>,
               nodes |-> [k \in 1..(max_node + 1) |-> InvalidNodeID],
               weights |-> [k \in 1..(max_node + 1) |-> <<0, 1>>]]
      acc == ConstructLoop(nodes, DOMAIN nodes, acc0)
  IN  [ok |-> acc.ok,
       addrToIndex |-> acc.addrToIndex,
       sequencers |-> [nodes |-> acc.nodes,
                       weights |-> NormalizeWeights(acc.weights)]]

\* ServerConfig::getNode(node_index_t): [node, err]; err is written on failure only
getNode(nodes, index, e) ==
  IF index \notin DOMAIN nodes
  THEN [node |-> NullNode, err |-> "NOTFOUND"]
  ELSE [node |-> nodes[index], err |-> e]

\* ServerConfig::getNode(const NodeID&)
getNodeByIDIgnoreGeneration(nodes, id, e) ==
  IF ~isNodeID(id)
  THEN [node |-> NullNode, err |-> "INVALID_PARAM"]
  ELSE LET r == getNode(nodes, id.index, e)
       IN  IF r.node = NullNode
           THEN [node |-> NullNode, err |-> "NOTFOUND"]
           ELSE r
getNodeByID(nodes, id, e) ==
  IF ~isNodeID(id)
  THEN [node |-> NullNode, err |-> "INVALID_PARAM"]
  ELSE LET r == getNode(nodes, id.index, e)
       IN  IF r.node = NullNode
              \/ (id.generation # 0 /\ r.node.generation # id.generation)
           THEN [node |-> NullNode, err |-> "NOTFOUND"]
           ELSE r

\* ServerConfig::getNodeID(address, NodeID* node): [rc, out, err, ok];
\* ok is false when a check failed
getNodeIDNoGeneration(a2i, nodes, address, out, e) ==
  IF address \notin DOMAIN a2i
  THEN [rc |-> -1, out |-> out, err |-> "NOTFOUND", ok |-> TRUE]
  ELSE [rc |-> 0, out |-> NodeID(a2i[address], 0), err |-> e, ok |-> TRUE]
getNodeID(a2i, nodes, address, out, e) ==
  IF address \notin DOMAIN a2i
  THEN [rc |-> -1, out |-> out, err |-> "NOTFOUND", ok |-> TRUE]
  ELSE LET index == a2i[address]
       IN  IF ~ld_check(nodes[index].address = address)
           THEN [rc |-> -1, out |-> out, err |-> e, ok |-> FALSE]
           ELSE [rc |-> 0, out |-> NodeID(index, nodes[index].generation),
                 err |-> e, ok |-> TRUE]

NoCall == [op |-> "none", index |-> 0, generation |-> 0,
           address |-> "none", prior |-> InvalidNodeID]
NoRet == [rc |-> 0, node |-> NullNode]
NoSequencers == [nodes |-> <<>>, weights |-> <<>>]

\* fromData(): new ServerConfig(nodesIn, ...)
Construct ==
  /\ phase = "none"
  /\ LET c == Constructor(nodesIn)
     IN  IF c.ok
         THEN /\ phase' = "constructed"
              /\ nodesConfig_' = nodesIn
              /\ addrToIndex_' = c.addrToIndex
              /\ sequencersConfig_' = c.sequencers
         ELSE /\ phase' = "crashed"
              /\ UNCHANGED <<nodesConfig_, addrToIndex_, sequencersConfig_>>
  /\ UNCHANGED <<nodesIn, err, call, ret, outNode, planVars, vssVars,
                 drvVars, jsonVars, cacheVars>>

CallGetNode(index) ==
  /\ phase = "constructed"
  /\ LET r == getNode(nodesConfig_, index, err)
     IN  /\ ret' = [rc |-> 0, node |-> r.node]
         /\ err' = r.err
  /\ call' = [NoCall EXCEPT !.op = "getNode", !.index = index]
  /\ outNode' = InvalidNodeID
  /\ UNCHANGED <<nodesIn, phase, nodesConfig_, addrToIndex_, sequencersConfig_,
                 planVars, vssVars,
                 drvVars, jsonVars, cacheVars>>

CallGetNodeByID(id) ==
  /\ phase = "constructed"
  /\ LET r == getNodeByID(nodesConfig_, id, err)
     IN  /\ ret' = [rc |-> 0, node |-> r.node]
         /\ err' = r.err
  /\ call' = [NoCall EXCEPT !.op = "getNodeByID", !.index = id.index,
                            !.generation = id.generation]
  /\ outNode' = InvalidNodeID
  /\ UNCHANGED <<nodesIn, phase, nodesConfig_, addrToIndex_, sequencersConfig_,
                 planVars, vssVars,
                 drvVars, jsonVars, cacheVars>>

CallGetNodeID(address, prior) ==
  /\ phase = "constructed"
  /\ LET r == getNodeID(addrToIndex_, nodesConfig_, address, prior, err)
     IN  /\ ret' = [rc |-> r.rc, node |-> NullNode]
         /\ err' = r.err
         /\ outNode' = r.out
         /\ phase' = IF r.ok THEN phase ELSE "crashed"
  /\ call' = [NoCall EXCEPT !.op = "getNodeID", !.address = address,
                            !.prior = prior]
  /\ UNCHANGED <<nodesIn, nodesConfig_, addrToIndex_, sequencersConfig_,
                 planVars, vssVars,
                 drvVars, jsonVars, cacheVars>>

\* node maps: a node per index of a subset of the indices
NodeMaps(choices) == UNION {[S -> choices] : S \in SUBSET NodeIdxs}
\* nodes that differ in address and generation
LookupNodes == {Node(a, g, {}, 0, "NONE", <<>>) : a \in Addrs, g \in Gens}
\* nodes with distinct addresses that differ in sequencer role and weight
WeightNodes(a) ==
  {Node(a, 1, {}, 0, "NONE", <<>>)}
    \cup {Node(a, 1, {"SEQUENCER"}, w, "NONE", <<>>) : w \in 0..MaxWeight}
AddrOf(i) == IF i = 0 THEN "a1" ELSE IF i = 1 THEN "a2" ELSE IF i = 2 THEN "a3" ELSE "a4"
WeightNodeMaps ==
  {f \in NodeMaps(UNION {WeightNodes(AddrOf(i)) : i \in NodeIdxs}) :
     \A i \in DOMAIN f : f[i].address = AddrOf(i)}

PriorNodeIDs == {InvalidNodeID, NodeID(MaxNodeIdx + 1, 1)}

InitConfigWith(maps) ==
  /\ nodesIn \in maps
  /\ phase = "none"
  /\ nodesConfig_ = << >>
  /\ addrToIndex_ = << >>
  /\ sequencersConfig_ = NoSequencers
  /\ err = "OK"
  /\ call = NoCall
  /\ ret = NoRet
  /\ outNode = InvalidNodeID

NextConfig ==
  \/ Construct
  \/ \E i \in 0..(MaxNodeIdx + 1) : CallGetNode(i)
  \/ \E i \in -1..MaxNodeIdx, g \in 0..MaxGen : CallGetNodeByID(NodeID(i, g))
  \/ \E a \in Addrs, p \in PriorNodeIDs : CallGetNodeID(a, p)

(***************************************************************************)
(* ServerConfig::validStorageSet                                           *)
(***************************************************************************)
MaxReplication == 2
ClusterIdxs == {0, 1, 2}
Scopes == {"NODE", "RACK", "ROW"}          \* NodeLocationScope, narrowest first
ShardID(n, s) == [node |-> n, shard |-> s]
Shards == {ShardID(n, 0) : n \in ClusterIdxs} \cup {ShardID(0, 1)}

\* ReplicationProperty::isValid(): every required count is positive
isValid(replication) ==
  \A scope \in DOMAIN replication : scope \in Scopes /\ replication[scope] > 0

\* the failure domain of a node at a scope: its location labels down to the
\* scope; at NODE scope the node itself
DomainOf(cluster_nodes, n, scope) ==
  LET loc == cluster_nodes[n].location
  IN  IF scope = "ROW" THEN <<loc[1]>>
      ELSE IF scope = "RACK" THEN <<loc[1], loc[2]>>
      ELSE <<loc[1], loc[2], n>>

\* FailureDomainNodeSet<bool>(storage_set, cluster_nodes, replication): the
\* shards of the storage set whose node is in the cluster, no attribute set
FailureDomainNodeSet(storage_set, cluster_nodes, replication) ==
  [shards |-> {storage_set[k] : k \in {j \in 1..Len(storage_set) :
                                  storage_set[j].node \in DOMAIN cluster_nodes}},
   nodes |-> cluster_nodes,
   replication |-> replication,
   attr |-> {}]

\* FailureDomainNodeSet::setShardAttribute(shard, true)
setShardAttribute(fd, shard) ==
  IF shard \in fd.shards THEN [fd EXCEPT !.attr = @ \cup {shard}] ELSE fd

\* FailureDomainNodeSet::canReplicate(true): at every required scope, the
\* domains holding a shard with the attribute are at least the required count
canReplicate(fd) ==
  \A scope \in DOMAIN fd.replication :
    Cardinality({DomainOf(fd.nodes, sh.node, scope) : sh \in fd.attr})
      >= fd.replication[scope]

\* the loop over storage_set of validStorageSet: [failed, fd]
RECURSIVE StorageSetLoop(_, _, _, _, _)
StorageSetLoop(cluster_nodes, storage_set, strict, k, fd) ==
  IF k > Len(storage_set) THEN [failed |-> FALSE, fd |-> fd]
  ELSE
    LET shard == storage_set[k]
        found == shard.node \in DOMAIN cluster_nodes
    IN  IF strict /\ ~found
        THEN [failed |-> TRUE, fd |-> fd]
        ELSE StorageSetLoop(cluster_nodes, storage_set, strict, k + 1,
               IF found /\ isWritableStorageNode(cluster_nodes[shard.node])
               THEN setShardAttribute(fd, shard)
               ELSE fd)

\* ServerConfig::validStorageSet(cluster_nodes, storage_set, replication, strict)
validStorageSetAnyNode(cluster_nodes, storage_set, replication, strict) ==
  IF ~isValid(replication) THEN FALSE
  ELSE
    LET fd == FailureDomainNodeSet(storage_set, cluster_nodes, replication)
    IN  IF strict /\ \E k \in 1..Len(storage_set) :
                       storage_set[k].node \notin DOMAIN cluster_nodes
        THEN FALSE
        ELSE canReplicate([fd EXCEPT !.attr = fd.shards])
validStorageSetNeverStrict(cluster_nodes, storage_set, replication, strict) ==
  IF ~isValid(replication) THEN FALSE
  ELSE
    LET fd == FailureDomainNodeSet(storage_set, cluster_nodes, replication)
        r == StorageSetLoop(cluster_nodes, storage_set, FALSE, 1, fd)
    IN  canReplicate(r.fd)
validStorageSet(cluster_nodes, storage_set, replication, strict) ==
  IF ~isValid(replication) THEN FALSE
  ELSE
    LET fd == FailureDomainNodeSet(storage_set, cluster_nodes, replication)
        r == StorageSetLoop(cluster_nodes, storage_set, strict, 1, fd)
    IN  IF r.failed THEN FALSE ELSE canReplicate(r.fd)

\* a StorageSet (std::vector<ShardID>) holding the shards of S in ShardID order
ShardLess(a, b) == a.node < b.node \/ (a.node = b.node /\ a.shard < b.shard)
RECURSIVE StorageSetOf(_)
StorageSetOf(S) ==
  IF S = {} THEN <<>>
  ELSE LET first == CHOOSE x \in S : \A y \in S \ {x} : ShardLess(x, y)
       IN  <<first>> \o StorageSetOf(S \ {first})

\* storage nodes that differ in storage state and location
StorageNodes ==
  {Node("a1", 1, {"STORAGE"}, 0, st, loc) :
     st \in {"READ_ONLY", "READ_WRITE"}, loc \in Locations}
Clusters == UNION {[S -> StorageNodes] : S \in SUBSET ClusterIdxs}
ReplicationProperties ==
  UNION {[S -> 0..MaxReplication] : S \in SUBSET Scopes}

CallValidStorageSet(strict) ==
  /\ ~vssDone
  /\ vssDone' = TRUE
  /\ vssStrict' = strict
  /\ vssRet' = validStorageSet(vssArgs.cluster_nodes, vssArgs.storage_set,
                               vssArgs.replication, strict)
  /\ UNCHANGED <<vssArgs, planVars, cfgVars, drvVars, jsonVars, cacheVars>>

(***************************************************************************)
(* ServerConfig: copy and the derive operations                            *)
(***************************************************************************)
MaxVersion == 2
DeriveIdxs == {0, 1, 2}
\* the members a freshly constructed ServerConfig has before any setter runs
NoConfigMetadata == "no_metadata"
InvalidVersion == 0

\* ServerConfig::fromData(): new ServerConfig(...), the constructor's member
\* initialisers and its derived indices; ok is false when a check has failed
fromData(cluster_name, nodes, metadata_logs, principalsConfig, securityConfig, traceLoggerConfig, trafficShapingConfig, zookeeper, serverSettingsConfig, clientSettingsConfig, internalLogs, clusterCreationTime, customFields, ns_delimiter) ==
  LET c == Constructor(nodes)
  IN  [ok |-> c.ok,
       config |-> [clusterName_ |-> cluster_name,
                   clusterCreationTime_ |-> clusterCreationTime,
                   nodesConfig_ |-> nodes,
                   metaDataLogsConfig_ |-> metadata_logs,
                   principalsConfig_ |-> principalsConfig,
                   securityConfig_ |-> securityConfig,
                   trafficShapingConfig_ |-> trafficShapingConfig,
                   traceLoggerConfig_ |-> traceLoggerConfig,
                   zookeeperConfig_ |-> zookeeper,
                   serverSettingsConfig_ |-> serverSettingsConfig,
                   clientSettingsConfig_ |-> clientSettingsConfig,
                   internalLogs_ |-> internalLogs,
                   ns_delimiter_ |-> ns_delimiter,
                   customFields_ |-> customFields,
                   addrToIndex_ |-> c.addrToIndex,
                   sequencersConfig_ |-> c.sequencers,
                   version_ |-> InvalidVersion,
                   my_node_id_ |-> InvalidNodeID,
                   server_origin_ |-> InvalidNodeID,
                   main_config_metadata_ |-> NoConfigMetadata,
                   included_config_metadata_ |-> NoConfigMetadata]]

setVersion(config, version) == [config EXCEPT !.version_ = version]
setMyNodeID(config, id) == [config EXCEPT !.my_node_id_ = id]
setServerOrigin(config, id) == [config EXCEPT !.server_origin_ = id]
setMainConfigMetadata(config, md) == [config EXCEPT !.main_config_metadata_ = md]
setIncludedConfigMetadata(config, md) ==
  [config EXCEPT !.included_config_metadata_ = md]
hasMyNodeID(config) == isNodeID(config.my_node_id_)

\* ServerConfig::copy()
copy(this) ==
  LET r == fromData(this.clusterName_, this.nodesConfig_,
                    this.metaDataLogsConfig_, this.principalsConfig_,
                    this.securityConfig_, this.traceLoggerConfig_,
                    this.trafficShapingConfig_, this.zookeeperConfig_,
                    this.serverSettingsConfig_, this.clientSettingsConfig_,
                    this.internalLogs_, this.clusterCreationTime_,
                    this.customFields_, this.ns_delimiter_)
      c1 == setVersion(r.config, this.version_)
      c2 == IF hasMyNodeID(this) THEN setMyNodeID(c1, this.my_node_id_) ELSE c1
      c3 == setServerOrigin(c2, this.server_origin_)
      c4 == setMainConfigMetadata(c3, this.main_config_metadata_)
      c5 == setIncludedConfigMetadata(c4, this.included_config_metadata_)
  IN  [self |-> this, ok |-> r.ok, config |-> c5]

\* withNodes' loop over metaDataLogsConfig.metadata_nodes: keep the indices
\* nodes_map has, in the order they are met
MetadataNodesUnfiltered(metadata_nodes, nodes_map, k, acc) == metadata_nodes
RECURSIVE MetadataNodesLoop(_, _, _, _)
MetadataNodesLoop(metadata_nodes, nodes_map, k, acc) ==
  IF k > Len(metadata_nodes) THEN acc
  ELSE MetadataNodesLoop(metadata_nodes, nodes_map, k + 1,
                         IF metadata_nodes[k] \in DOMAIN nodes_map
                         THEN Append(acc, metadata_nodes[k])
                         ELSE acc)

\* a withNodes that installs the nodes in the receiver as well
withNodesInPlace(this, nodes) ==
  LET c == Constructor(nodes)
      r == copy([this EXCEPT !.nodesConfig_ = nodes,
                             !.addrToIndex_ = c.addrToIndex,
                             !.sequencersConfig_ = c.sequencers])
  IN  [r EXCEPT !.self = IF r.ok THEN r.config ELSE this]
\* ServerConfig::withNodes(NodesConfig nodes)
withNodes(this, nodes) ==
  LET metaDataLogsConfig == this.metaDataLogsConfig_
      metadata_nodes ==
        MetadataNodesLoop(metaDataLogsConfig.metadata_nodes, nodes, 1, <<>>)
      md == IF metaDataLogsConfig.metadata_nodes # metadata_nodes
            THEN [metaDataLogsConfig EXCEPT !.metadata_nodes = metadata_nodes]
            ELSE metaDataLogsConfig
      r == fromData(this.clusterName_, nodes, md, this.principalsConfig_,
                    this.securityConfig_, this.traceLoggerConfig_,
                    this.trafficShapingConfig_, this.zookeeperConfig_,
                    this.serverSettingsConfig_, this.clientSettingsConfig_,
                    this.internalLogs_, this.clusterCreationTime_,
                    this.customFields_, this.ns_delimiter_)
      c1 == setVersion(r.config, this.version_)
      c2 == IF hasMyNodeID(this) THEN setMyNodeID(c1, this.my_node_id_) ELSE c1
      c3 == setMainConfigMetadata(c2, this.main_config_metadata_)
      c4 == setIncludedConfigMetadata(c3, this.included_config_metadata_)
  IN  [self |-> this, ok |-> r.ok, config |-> c4]

\* ServerConfig::withZookeeperConfig(ZookeeperConfig zk)
withZookeeperConfig(this, zk) ==
  LET r == fromData(this.clusterName_, this.nodesConfig_,
                    this.metaDataLogsConfig_, this.principalsConfig_,
                    this.securityConfig_, this.traceLoggerConfig_,
                    this.trafficShapingConfig_, zk,
                    this.serverSettingsConfig_, this.clientSettingsConfig_,
                    this.internalLogs_, this.clusterCreationTime_,
                    this.customFields_, this.ns_delimiter_)
      c1 == setVersion(r.config, this.version_)
      c2 == IF hasMyNodeID(this) THEN setMyNodeID(c1, this.my_node_id_) ELSE c1
      c3 == setMainConfigMetadata(c2, this.main_config_metadata_)
      c4 == setIncludedConfigMetadata(c3, this.included_config_metadata_)
  IN  [self |-> this, ok |-> r.ok, config |-> c4]

\* ServerConfig::withVersion(config_version_t version)
withVersion(this, version) ==
  LET r == fromData(this.clusterName_, this.nodesConfig_,
                    this.metaDataLogsConfig_, this.principalsConfig_,
                    this.securityConfig_, this.traceLoggerConfig_,
                    this.trafficShapingConfig_, this.zookeeperConfig_,
                    this.serverSettingsConfig_, this.clientSettingsConfig_,
                    this.internalLogs_, this.clusterCreationTime_,
                    this.customFields_, this.ns_delimiter_)
      c1 == setVersion(r.config, version)
      c2 == IF hasMyNodeID(this) THEN setMyNodeID(c1, this.my_node_id_) ELSE c1
      c3 == setMainConfigMetadata(c2, this.main_config_metadata_)
      c4 == setIncludedConfigMetadata(c3, this.included_config_metadata_)
  IN  [self |-> this, ok |-> r.ok, config |-> c4]

NoDerive == [op |-> "none", nodes |-> << >>, version |-> 0, zk |-> "none"]
NullConfig == [clusterName_ |-> "nullptr"]
NoDerived == [state |-> "none", config |-> NullConfig]
NoReaderCall == [op |-> "none", index |-> 0, address |-> "none", after |-> FALSE]
NoReaderRet == [node |-> NullNode, rc |-> 0, out |-> InvalidNodeID]

\* what a derive operation that returned r = [self, ok, config] leaves the
\* caller with; a failed check in the constructor ends the process
DerivedOf(r) ==
  IF r.ok THEN [state |-> "ok", config |-> r.config]
  ELSE [state |-> "crashed", config |-> NullConfig]

CallCopy ==
  /\ derived.state # "crashed"
  /\ deriveOp' = [NoDerive EXCEPT !.op = "copy"]
  /\ LET r == copy(receiver)
     IN  receiver' = r.self /\ derived' = DerivedOf(r)
  /\ UNCHANGED <<receiver0, readerCall, readerRet,
                 planVars, cfgVars, vssVars, jsonVars, cacheVars>>

CallWithNodes(nodes) ==
  /\ derived.state # "crashed"
  /\ deriveOp' = [NoDerive EXCEPT !.op = "withNodes", !.nodes = nodes]
  /\ LET r == withNodes(receiver, nodes)
     IN  receiver' = r.self /\ derived' = DerivedOf(r)
  /\ UNCHANGED <<receiver0, readerCall, readerRet,
                 planVars, cfgVars, vssVars, jsonVars, cacheVars>>

CallWithZookeeperConfig(zk) ==
  /\ derived.state # "crashed"
  /\ deriveOp' = [NoDerive EXCEPT !.op = "withZookeeperConfig", !.zk = zk]
  /\ LET r == withZookeeperConfig(receiver, zk)
     IN  receiver' = r.self /\ derived' = DerivedOf(r)
  /\ UNCHANGED <<receiver0, readerCall, readerRet,
                 planVars, cfgVars, vssVars, jsonVars, cacheVars>>

CallWithVersion(version) ==
  /\ derived.state # "crashed"
  /\ deriveOp' = [NoDerive EXCEPT !.op = "withVersion", !.version = version]
  /\ LET r == withVersion(receiver, version)
     IN  receiver' = r.self /\ derived' = DerivedOf(r)
  /\ UNCHANGED <<receiver0, readerCall, readerRet,
                 planVars, cfgVars, vssVars, jsonVars, cacheVars>>

\* a reader that holds the receiver calls getNode(index)
ReaderGetNode(index) ==
  /\ derived.state # "crashed"
  /\ readerCall' = [op |-> "getNode", index |-> index, address |-> "none",
                    after |-> deriveOp.op # "none"]
  /\ readerRet' = [NoReaderRet EXCEPT
                     !.node = getNode(receiver.nodesConfig_, index, "OK").node]
  /\ UNCHANGED <<receiver, receiver0, derived, deriveOp,
                 planVars, cfgVars, vssVars, jsonVars, cacheVars>>

\* a reader that holds the receiver calls getNodeID(address, &out)
ReaderGetNodeID(address) ==
  /\ derived.state # "crashed"
  /\ LET r == getNodeID(receiver.addrToIndex_, receiver.nodesConfig_, address,
                        InvalidNodeID, "OK")
     IN  /\ r.ok
         /\ readerRet' = [NoReaderRet EXCEPT !.rc = r.rc, !.out = r.out]
  /\ readerCall' = [op |-> "getNodeID", index |-> 0, address |-> address,
                    after |-> deriveOp.op # "none"]
  /\ UNCHANGED <<receiver, receiver0, derived, deriveOp,
                 planVars, cfgVars, vssVars, jsonVars, cacheVars>>

\* node maps over DeriveIdxs: a sequencer node at its own address; in the maps
\* handed to withNodes node 0 may also be a plain node at node 1's address
DeriveNode(i) == Node(AddrOf(i), 1, {"SEQUENCER"}, i + 1, "NONE", <<>>)
MovedNode(i) == Node(AddrOf(i + 1), MaxGen, {}, 0, "NONE", <<>>)
ReceiverNodeMaps == {[i \in S |-> DeriveNode(i)] : S \in SUBSET DeriveIdxs}
DeriveNodeMaps ==
  ReceiverNodeMaps
    \cup {[i \in DOMAIN f |-> IF i = 0 THEN MovedNode(i) ELSE f[i]] :
            f \in {g \in ReceiverNodeMaps : 0 \in DOMAIN g}}
\* metadata nodesets of a node map: sequences of distinct indices of its nodes
MetadataNodeSets(nodes) ==
  {s \in UNION {[1..n -> DOMAIN nodes] : n \in 0..Cardinality(DOMAIN nodes)} :
     \A j \in DOMAIN s, k \in DOMAIN s : j # k => s[j] # s[k]}
ZookeeperConfigs == {"zk_old", "zk_new"}
OriginNodeIDs == {InvalidNodeID, NodeID(0, 1)}

\* the receiver: a snapshot built by fromData and the setters
ReceiverOf(nodes, metadata_nodes, my_node_id, server_origin) ==
  LET r == fromData("cluster", nodes,
                    [metadata_nodes |-> metadata_nodes,
                     replication |-> "metadata_replication"],
                    "principals", "security", "trace_logger",
                    "traffic_shaping", "zk_old", "server_settings",
                    "client_settings", "internal_logs", "creation_time",
                    "custom_fields", "/")
      c1 == setVersion(r.config, 1)
      c2 == setMyNodeID(c1, my_node_id)
      c3 == setServerOrigin(c2, server_origin)
      c4 == setMainConfigMetadata(c3, "main_metadata")
  IN  setIncludedConfigMetadata(c4, "included_metadata")

InitDerive ==
  /\ receiver \in UNION {{ReceiverOf(nodes, m, my, so) :
                             m \in MetadataNodeSets(nodes),
                             my \in OriginNodeIDs, so \in OriginNodeIDs} :
                            nodes \in ReceiverNodeMaps}
  /\ receiver0 = receiver
  /\ derived = NoDerived
  /\ deriveOp = NoDerive
  /\ readerCall = NoReaderCall
  /\ readerRet = NoReaderRet

NoReceiver ==
  /\ receiver = NullConfig
  /\ receiver0 = NullConfig
  /\ derived = NoDerived
  /\ deriveOp = NoDerive
  /\ readerCall = NoReaderCall
  /\ readerRet = NoReaderRet

NextDerive ==
  \/ CallCopy
  \/ \E nodes \in DeriveNodeMaps : CallWithNodes(nodes)
  \/ \E zk \in ZookeeperConfigs : CallWithZookeeperConfig(zk)
  \/ \E v \in 1..MaxVersion : CallWithVersion(v)
  \/ \E i \in DeriveIdxs : ReaderGetNode(i)
  \/ \E a \in Addrs : ReaderGetNodeID(a)

(***************************************************************************)
(* ServerConfig::fromJson and ServerConfig::toJson                         *)
(***************************************************************************)
\* set of keys that are used in configuration json format
config_recognized_keys ==
  {"client_settings", "cluster", "cluster_creation_time", "defaults",
   "include_log_config", "log_namespace_delimiter", "logs", "nodes",
   "metadata_logs", "principals", "security_information", "server_settings",
   "trace-logger", "traffic_shaping", "version", "zookeeper"}

\* LogsConfig::default_namespace_delimiter_
default_namespace_delimiter_ == "/"

\* a JSON value of the document, and a value toJson serialises from a member
Raw(text) == [kind |-> "raw", text |-> text]
Emitted(text) == [kind |-> "emitted", text |-> text]

\* the keys the section parsers read, in the order fromJson calls them
Parsers ==
  <<"cluster", "principals", "version", "cluster_creation_time",
    "security_information", "traffic_shaping", "nodes", "metadata_logs",
    "zookeeper", "server_settings", "client_settings", "internal_logs",
    "trace-logger">>

\* a section parser: fails on a malformed section, yields the section's
\* value, or the default for a section the document does not have
ParseSection(doc, key) ==
  [ok |-> key \notin DOMAIN doc \/ doc[key].text # "bad",
   value |-> IF key \in DOMAIN doc THEN doc[key].text ELSE "default"]

\* bool success = parseClusterName(...) && ... && parseTraceLogger(...):
\* the parsers run in order until one fails; trace lists the ones called
RECURSIVE ParseChain(_, _, _)
ParseChain(doc, k, trace) ==
  IF k > Len(Parsers) THEN [ok |-> TRUE, trace |-> trace]
  ELSE IF ParseSection(doc, Parsers[k]).ok
       THEN ParseChain(doc, k + 1, Append(trace, Parsers[k]))
       ELSE [ok |-> FALSE, trace |-> Append(trace, Parsers[k])]

\* parseNodes: the node map of the "nodes" section
ParsedNodes(doc) == IF "nodes" \in DOMAIN doc THEN (0 :> DeriveNode(0)) ELSE << >>

\* if (ns_delim_fbstr.size() > 1)
DelimiterLongerThanTwo(ns_delim_fbstr) == Len(ns_delim_fbstr) > 2
DelimiterTooLong(ns_delim_fbstr) == Len(ns_delim_fbstr) > 1

\* the loop over parsed.items() that fills customFields
CustomFieldsOf(doc) ==
  [key \in {k \in DOMAIN doc : k \notin config_recognized_keys} |-> doc[key]]

\* ServerConfig::fromJson(const folly::dynamic& parsed), called with err = e
fromJson(doc, e) ==
  LET has_delim == "log_namespace_delimiter" \in DOMAIN doc
      ns_delim_fbstr == IF has_delim THEN doc["log_namespace_delimiter"].text
                        ELSE ""
      ns_delimiter == IF has_delim THEN ns_delim_fbstr
                      ELSE default_namespace_delimiter_
      chain == ParseChain(doc, 1, <<>>)
      val(key) == ParseSection(doc, key).value
      r == fromData(val("cluster"), ParsedNodes(doc),
                    [metadata_nodes |-> <<>>, replication |-> val("metadata_logs")],
                    val("principals"), val("security_information"),
                    val("trace-logger"), val("traffic_shaping"),
                    val("zookeeper"), val("server_settings"),
                    val("client_settings"), val("internal_logs"),
                    val("cluster_creation_time"), CustomFieldsOf(doc),
                    ns_delimiter)
  IN  IF has_delim /\ DelimiterTooLong(ns_delim_fbstr)
      THEN [ok |-> FALSE, config |-> NullConfig, err |-> "INVALID_CONFIG",
            trace |-> <<>>]
      ELSE IF ~chain.ok
      THEN [ok |-> FALSE, config |-> NullConfig, err |-> "INVALID_CONFIG",
            trace |-> chain.trace]
      ELSE [ok |-> TRUE, config |-> setVersion(r.config, val("version")),
            err |-> e, trace |-> chain.trace]

\* toJson's json_all before the custom fields are inserted
ToJsonSections(this, with_logs) ==
  LET always == [key \in {"cluster", "version", "nodes", "metadata_logs",
                          "internal_logs", "principals", "traffic_shaping",
                          "server_settings", "client_settings", "trace-logger"}
                   |-> Emitted(CASE key = "cluster" -> this.clusterName_
                                 [] key = "version" -> this.version_
                                 [] key = "nodes" -> "nodes"
                                 [] key = "metadata_logs" ->
                                      this.metaDataLogsConfig_.replication
                                 [] key = "internal_logs" -> this.internalLogs_
                                 [] key = "principals" -> this.principalsConfig_
                                 [] key = "traffic_shaping" ->
                                      this.trafficShapingConfig_
                                 [] key = "server_settings" ->
                                      this.serverSettingsConfig_
                                 [] key = "client_settings" ->
                                      this.clientSettingsConfig_
                                 [] OTHER -> this.traceLoggerConfig_)]
      j1 == IF this.clusterCreationTime_ # "default"
            THEN ("cluster_creation_time" :> Emitted(this.clusterCreationTime_))
                   @@ always
            ELSE always
      j2 == IF with_logs THEN ("logs" :> Emitted("logs")) @@ j1 ELSE j1
      j3 == IF this.ns_delimiter_ # default_namespace_delimiter_
            THEN ("log_namespace_delimiter" :> Emitted(this.ns_delimiter_)) @@ j2
            ELSE j2
      j4 == IF this.securityConfig_ # "default"
            THEN ("security_information" :> Emitted(this.securityConfig_)) @@ j3
            ELSE j3
  IN  IF this.zookeeperConfig_ # "default"
      THEN ("zookeeper" :> Emitted(this.zookeeperConfig_)) @@ j4
      ELSE j4

\* ServerConfig::toJson(const LogsConfig* with_logs):
\* for (auto& pair : customFields_.items()) json_all[pair.first] = pair.second;
toJson(this, with_logs) == this.customFields_ @@ ToJsonSections(this, with_logs)

CallFromJson ==
  /\ jsonPhase = "none"
  /\ LET r == fromJson(parsed, "OK")
     IN  /\ jsonPhase' = IF r.ok THEN "parsed" ELSE "failed"
         /\ jsonConfig' = r.config
         /\ jsonErr' = r.err
         /\ jsonTrace' = r.trace
  /\ UNCHANGED <<parsed, json_all, planVars, cfgVars, vssVars, drvVars, cacheVars>>

CallToJson(with_logs) ==
  /\ jsonPhase = "parsed"
  /\ jsonPhase' = "emitted"
  /\ json_all' = toJson(jsonConfig, with_logs)
  /\ UNCHANGED <<parsed, jsonConfig, jsonErr, jsonTrace,
                 planVars, cfgVars, vssVars, drvVars, cacheVars>>

\* documents: per key, the values a document may give it
Delimiters == {"", "#", "/", "::"}
DocValues(key) ==
  CASE key = "log_namespace_delimiter" -> {Raw(d) : d \in Delimiters}
    [] key \in {"cluster", "trace-logger"} -> {Raw("v1"), Raw("bad")}
    [] key = "my_custom_field" -> {Raw("v1"), Raw("v2")}
    [] OTHER -> {Raw("v1")}
DocKeys ==
  {"cluster", "nodes", "internal_logs", "log_namespace_delimiter", "logs",
   "trace-logger", "zookeeper", "my_custom_field"}
RECURSIVE DocumentsOver(_)
DocumentsOver(keys) ==
  IF keys = {} THEN {<< >>}
  ELSE LET key == CHOOSE k \in keys : TRUE
           rest == DocumentsOver(keys \ {key})
       IN  rest \cup {(key :> v) @@ d : v \in DocValues(key), d \in rest}
Documents == DocumentsOver(DocKeys)

InitJson ==
  /\ parsed \in Documents
  /\ jsonPhase = "none"
  /\ jsonConfig = NullConfig
  /\ jsonErr = "OK"
  /\ jsonTrace = <<>>
  /\ json_all = << >>

NoDocument ==
  /\ parsed = << >>
  /\ jsonPhase = "none"
  /\ jsonConfig = NullConfig
  /\ jsonErr = "OK"
  /\ jsonTrace = <<>>
  /\ json_all = << >>

NextJson ==
  \/ CallFromJson
  \/ \E with_logs \in BOOLEAN : CallToJson(with_logs)

(***************************************************************************)
(* ServerConfig::toString and its cache                                    *)
(***************************************************************************)
MaxLogsVersion == 2
LSN_INVALID == 0
EmptyString == [kind |-> "empty"]

\* the logs configs handed to toString: with_logs == nullptr, or a config with
\* a version, its content, and whether it was modified in place
NoLogsConfig == [present |-> FALSE, version |-> LSN_INVALID,
                 modified |-> FALSE, content |-> "none"]
LogsConfigs ==
  {[present |-> TRUE, version |-> v, modified |-> m,
    content |-> IF m THEN "edited" ELSE "original"] :
     v \in 1..MaxLogsVersion, m \in BOOLEAN}

\* ServerConfig::toStringImpl(with_logs): the serialised toJson(with_logs)
toStringImpl(with_logs) ==
  [kind |-> "text", with_logs |-> with_logs.present,
   version |-> with_logs.version, content |-> with_logs.content]
\* codec->compress(input.get())
Gzip(config_str) == [kind |-> "gzip", of |-> config_str]

\* the version check that clears the full-config cache
VersionDiffers(logs_config_version, last_version, no_cache) ==
  logs_config_version # last_version \/ no_cache

\* ServerConfig::toString(with_logs, compress) on the cache members c;
\* gzip_fails: codec->compress throws std::invalid_argument
toString(c, with_logs, compress, gzip_fails) ==
  LET no_cache == with_logs.present /\ with_logs.modified
      clear == with_logs.present
                 /\ VersionDiffers(with_logs.version, c.last, no_cache)
      c1 == IF clear
            THEN [c EXCEPT !.last = LSN_INVALID, !.all = EmptyString,
                           !.call = EmptyString]
            ELSE c
      cached == IF no_cache THEN EmptyString
                ELSE IF with_logs.present THEN c1.all ELSE c1.main
      regen == cached = EmptyString
      config_str == IF regen THEN toStringImpl(with_logs) ELSE cached
      c2 == IF no_cache THEN c1
            ELSE IF with_logs.present THEN [c1 EXCEPT !.all = config_str]
            ELSE [c1 EXCEPT !.main = config_str]
      ccached == IF no_cache THEN EmptyString
                 ELSE IF with_logs.present THEN c2.call ELSE c2.cmain
      compressed_config_str ==
        IF ccached # EmptyString THEN ccached
        ELSE IF gzip_fails THEN EmptyString
        ELSE Gzip(config_str)
      c3 == IF no_cache THEN c2
            ELSE IF with_logs.present
            THEN [c2 EXCEPT !.call = compressed_config_str]
            ELSE [c2 EXCEPT !.cmain = compressed_config_str]
  IN  IF ~compress
      THEN [c |-> c2, ret |-> config_str, regenerated |-> regen]
      ELSE [c |-> c3, ret |-> compressed_config_str, regenerated |-> regen]

NoToStringCall ==
  [op |-> "none", with_logs |-> NoLogsConfig, compress |-> FALSE,
   prev |-> NoLogsConfig, cached |-> EmptyString]

CallToString(with_logs, compress, gzip_fails) ==
  /\ gzip_fails => compress
  /\ LET r == toString([main |-> main_to_string_cache_,
                        all |-> all_to_string_cache_,
                        cmain |-> compressed_main_to_string_cache_,
                        call |-> compressed_all_to_string_cache_,
                        last |-> last_to_string_logs_config_version_],
                       with_logs, compress, gzip_fails)
     IN  /\ main_to_string_cache_' = r.c.main
         /\ all_to_string_cache_' = r.c.all
         /\ compressed_main_to_string_cache_' = r.c.cmain
         /\ compressed_all_to_string_cache_' = r.c.call
         /\ last_to_string_logs_config_version_' = r.c.last
         /\ toStringRet' = r.ret
         /\ regenerated' = r.regenerated
  /\ toStringCall' = [op |-> "toString", with_logs |-> with_logs,
                      compress |-> compress, prev |-> prevWithLogs,
                      cached |-> all_to_string_cache_]
  /\ prevWithLogs' = IF with_logs.present THEN with_logs ELSE prevWithLogs
  /\ UNCHANGED <<planVars, cfgVars, vssVars, drvVars, jsonVars>>

InitCache ==
  /\ main_to_string_cache_ = EmptyString
  /\ all_to_string_cache_ = EmptyString
  /\ compressed_main_to_string_cache_ = EmptyString
  /\ compressed_all_to_string_cache_ = EmptyString
  /\ last_to_string_logs_config_version_ = LSN_INVALID
  /\ toStringCall = NoToStringCall
  /\ toStringRet = EmptyString
  /\ regenerated = FALSE
  /\ prevWithLogs = NoLogsConfig

NextCache ==
  \E with_logs \in LogsConfigs \cup {NoLogsConfig}, compress \in BOOLEAN,
     gzip_fails \in BOOLEAN :
    CallToString(with_logs, compress, gzip_fails)

(***************************************************************************)
(* Specifications                                                          *)
(***************************************************************************)
InitVss ==
  /\ vssArgs = [cluster_nodes |-> << >>, storage_set |-> <<>>,
                replication |-> << >>]
  /\ vssStrict = FALSE
  /\ vssDone = FALSE
  /\ vssRet = FALSE

NoExtras == NoReceiver /\ NoDocument /\ InitCache

InitSpecPlan == InitPlan /\ InitConfigWith({<< >>}) /\ InitVss /\ NoExtras
SpecPlan == InitSpecPlan /\ [][NextPlan]_vars

Init == InitPlan /\ InitConfigWith(NodeMaps(LookupNodes)) /\ InitVss /\ NoExtras
Next == NextConfig
Spec == Init /\ [][Next]_vars

InitSpecWeights ==
  InitPlan /\ InitConfigWith(WeightNodeMaps) /\ InitVss /\ NoExtras
SpecWeights == InitSpecWeights /\ [][NextConfig]_vars

InitSpecStorageSet ==
  /\ InitPlan
  /\ InitConfigWith({<< >>})
  /\ vssArgs \in [cluster_nodes : Clusters,
                  storage_set : {StorageSetOf(S) : S \in SUBSET Shards},
                  replication : ReplicationProperties]
  /\ vssStrict = FALSE
  /\ vssDone = FALSE
  /\ vssRet = FALSE
  /\ NoExtras
NextStorageSet == \E strict \in BOOLEAN : CallValidStorageSet(strict)
SpecStorageSet == InitSpecStorageSet /\ [][NextStorageSet]_vars

InitSpecDerive ==
  /\ InitPlan /\ InitConfigWith({<< >>}) /\ InitVss
  /\ InitDerive /\ NoDocument /\ InitCache
SpecDerive == InitSpecDerive /\ [][NextDerive]_vars

InitSpecJson ==
  /\ InitPlan /\ InitConfigWith({<< >>}) /\ InitVss
  /\ NoReceiver /\ InitJson /\ InitCache
SpecJson == InitSpecJson /\ [][NextJson]_vars

InitSpecCache ==
  /\ InitPlan /\ InitConfigWith({<< >>}) /\ InitVss
  /\ NoReceiver /\ NoDocument /\ InitCache
SpecCache == InitSpecCache /\ [][NextCache]_vars

(***************************************************************************)
(* Properties                                                              *)
(***************************************************************************)
Range(f) == {f[x] : x \in DOMAIN f}

\* ---- validStorageSet (SpecStorageSet) ----
AbsentShards ==
  {sh \in Range(vssArgs.storage_set) : sh.node \notin DOMAIN vssArgs.cluster_nodes}
\* the nodes of the storage set that are writable storage nodes
WritableNodes ==
  {n \in DOMAIN vssArgs.cluster_nodes :
     /\ \E sh \in Range(vssArgs.storage_set) : sh.node = n
     /\ "STORAGE" \in vssArgs.cluster_nodes[n].roles
     /\ vssArgs.cluster_nodes[n].storage_state = "READ_WRITE"}
\* two nodes lie in the same failure domain at a scope
SameDomain(a, b, scope) ==
  LET la == vssArgs.cluster_nodes[a].location
      lb == vssArgs.cluster_nodes[b].location
  IN  CASE scope = "NODE" -> a = b
        [] scope = "RACK" -> la[1] = lb[1] /\ la[2] = lb[2]
        [] scope = "ROW" -> la[1] = lb[1]
\* at least `count` pairwise distinct failure domains hold a writable node
HasDistinctDomains(scope, count) ==
  \E T \in SUBSET WritableNodes :
    /\ Cardinality(T) >= count
    /\ \A a \in T, b \in T : a # b => ~SameDomain(a, b, scope)
PropertyIsValid ==
  \A scope \in DOMAIN vssArgs.replication : vssArgs.replication[scope] >= 1

\* C1: when every shard's node is in the topology, validStorageSet returns true
\* iff the replication property is valid and at every required scope the
\* writable storage nodes of the storage set lie in at least the required
\* number of distinct failure domains.
C1_ValidStorageSetIff ==
  (vssDone /\ AbsentShards = {}) =>
    (vssRet <=>
       /\ PropertyIsValid
       /\ \A scope \in DOMAIN vssArgs.replication :
            HasDistinctDomains(scope, vssArgs.replication[scope]))

\* several writable nodes confined to one rack fail a requirement of 2 racks
C1_Witness ==
  /\ vssDone
  /\ AbsentShards = {}
  /\ ~vssRet
  /\ PropertyIsValid
  /\ DOMAIN vssArgs.replication = {"RACK"}
  /\ vssArgs.replication["RACK"] = 2
  /\ Cardinality(WritableNodes) = 3

PresentOnly ==
  SelectSeq(vssArgs.storage_set, LAMBDA sh : sh.node \in DOMAIN vssArgs.cluster_nodes)

\* C2: with a shard whose node is absent from the topology, strict mode
\* returns false, and non-strict mode returns what it returns for the storage
\* set with the absent-node shards removed.
C2_StrictAndNonStrict ==
  (vssDone /\ AbsentShards # {}) =>
    IF vssStrict
    THEN vssRet = FALSE
    ELSE vssRet = validStorageSet(vssArgs.cluster_nodes, PresentOnly,
                                  vssArgs.replication, FALSE)

\* non-strict mode ignores an absent shard and accepts the remaining shards
C2_Witness ==
  /\ vssDone
  /\ ~vssStrict
  /\ AbsentShards # {}
  /\ vssRet
  /\ DOMAIN vssArgs.replication = {"NODE", "RACK"}
  /\ vssArgs.replication["RACK"] = 2

\* ---- RebuildingPlan (SpecPlan) ----
CoveredBy(r, e) == r.lo <= e /\ e < r.hi

\* C3: a lookup returns M exactly when the epoch lies in an inserted interval
\* [since, until) tagged M (until itself is not covered), and no metadata when
\* the epoch lies in no inserted interval.
C3_LookupHalfOpen ==
  planOp.op = "lookup" =>
    /\ \A r \in inserted : CoveredBy(r, planOp.e) => lookupRet = r.md
    /\ (~\E r \in inserted : CoveredBy(r, planOp.e)) => lookupRet = NoMeta

\* lookup(until of one interval) returns the metadata of the interval that
\* starts there
C3_Witness ==
  /\ planOp.op = "lookup"
  /\ \E r1 \in inserted, r2 \in inserted :
       /\ r1.hi = r2.lo
       /\ r1.md # r2.md
       /\ planOp.e = r1.hi
       /\ lookupRet = r2.md

\* the requested interval shares an epoch with a segment of the plan
SharesEpoch(since, until, m) ==
  \E e \in Epochs, k \in 1..Len(m) :
    /\ since <= e /\ e < until
    /\ m[k].lo <= e /\ e < m[k].hi

\* C4: an addEpochRange whose interval overlaps an interval of the plan aborts
\* and leaves the plan's intervals and metadata as they were.
C4_OverlapRejected ==
  [][(/\ planOp'.op = "add"
      /\ SharesEpoch(planOp'.since, planOp'.until, epochsToRead)
      /\ addEpochRange(planOp'.since, planOp'.until, planOp'.md)) =>
        (planAborted' /\ epochsToRead' = epochsToRead)]_vars

\* an insert overlapping two intervals was rejected and both are still there
C4_Witness ==
  /\ planAborted
  /\ planOp.op = "add"
  /\ Len(epochsToRead) = 2
  /\ SharesEpoch(planOp.since, planOp.until, SubSeq(epochsToRead, 1, 1))
  /\ SharesEpoch(planOp.since, planOp.until, SubSeq(epochsToRead, 2, 2))

\* C5: the intervals of epochsToRead are pairwise disjoint, an iteration yields
\* each (interval, metadata) pair once in strictly increasing epoch order, and
\* a restarted iteration yields the same sequence.
C5_DisjointOrdered ==
  /\ \A k \in 1..Len(epochsToRead) : epochsToRead[k].lo < epochsToRead[k].hi
  /\ \A i \in 1..Len(epochsToRead), j \in 1..Len(epochsToRead) :
       i < j =>
         /\ ~\E e \in Epochs : CoveredBy(epochsToRead[i], e) /\ CoveredBy(epochsToRead[j], e)
         /\ epochsToRead[i].hi <= epochsToRead[j].lo
  /\ itPos > 0 => itOut = SubSeq(epochsToRead, 1, itPos - 1)
  /\ \A i \in 1..Len(itOut), j \in 1..Len(itOut) : i # j => itOut[i] # itOut[j]
  /\ (prevValid /\ itPos = Len(epochsToRead) + 1) => prevOut = itOut

\* a second complete iteration over a plan of three intervals
C5_Witness ==
  /\ Len(epochsToRead) = 3
  /\ itPos = 4
  /\ prevValid

FreshPlanAfter(op) ==
  IF op.since < op.until
  THEN <<[lo |-> op.since, hi |-> op.until, md |-> op.md]>>
  ELSE <<>>

\* C6: clearEpochRange discards every interval, and clearEpochRange followed
\* by one addEpochRange leaves the intervals of a fresh plan after that
\* addEpochRange.
C6_ClearThenAdd ==
  /\ planOp.op = "clear" => epochsToRead = <<>>
  /\ (planOp.op = "add" /\ planOp.afterClear) => epochsToRead = FreshPlanAfter(planOp)

\* a clear that discarded two intervals, then one insert
C6_Witness ==
  /\ planOp.op = "add"
  /\ planOp.afterClear
  /\ planOp.dropped = 2
  /\ Len(epochsToRead) = 1

\* ---- ServerConfig lookups (Spec) ----
\* C7: getNode(index) returns the node at index iff present, else NOTFOUND;
\* getNode(NodeID) reports INVALID_PARAM for an id that is no node id, returns
\* the node iff present and (generation 0 or equal generations), and reports
\* NOTFOUND otherwise.
C7_GetNode ==
  /\ call.op = "getNode" =>
       IF call.index \in DOMAIN nodesConfig_
       THEN ret.node = nodesConfig_[call.index]
       ELSE ret.node = NullNode /\ err = "NOTFOUND"
  /\ call.op = "getNodeByID" =>
       IF call.index < 0
       THEN ret.node = NullNode /\ err = "INVALID_PARAM"
       ELSE IF /\ call.index \in DOMAIN nodesConfig_
               /\ (call.generation = 0
                   \/ nodesConfig_[call.index].generation = call.generation)
            THEN ret.node = nodesConfig_[call.index]
            ELSE ret.node = NullNode /\ err = "NOTFOUND"

\* a lookup by NodeID whose generation differs from the stored one
C7_Witness ==
  /\ call.op = "getNodeByID"
  /\ call.index \in DOMAIN nodesConfig_
  /\ call.generation # 0
  /\ nodesConfig_[call.index].generation # call.generation
  /\ ret.node = NullNode
  /\ err = "NOTFOUND"

\* C8: in a constructed snapshot getNodeID(a) succeeds with NodeID(i, g) for
\* the node at index i with address a and generation g, getNode of that NodeID
\* returns the node with address a, and for an address no node has getNodeID
\* reports NOTFOUND and leaves the output NodeID as it was.
C8_GetNodeIDInverse ==
  /\ phase = "constructed" =>
       \A i \in DOMAIN nodesConfig_ :
         LET r == getNodeID(addrToIndex_, nodesConfig_,
                            nodesConfig_[i].address, InvalidNodeID, err)
         IN  /\ r.ok /\ r.rc = 0
             /\ r.out = NodeID(i, nodesConfig_[i].generation)
             /\ getNodeByID(nodesConfig_, r.out, err).node = nodesConfig_[i]
  /\ call.op = "getNodeID" =>
       /\ phase = "constructed"
       /\ IF \E i \in DOMAIN nodesConfig_ : nodesConfig_[i].address = call.address
          THEN /\ ret.rc = 0
               /\ outNode.index \in DOMAIN nodesConfig_
               /\ nodesConfig_[outNode.index].address = call.address
               /\ nodesConfig_[outNode.index].generation = outNode.generation
          ELSE /\ ret.rc = -1
               /\ err = "NOTFOUND"
               /\ outNode = call.prior

\* an address no node has, looked up with an output NodeID already set
C8_Witness ==
  /\ call.op = "getNodeID"
  /\ Cardinality(DOMAIN nodesConfig_) = 2
  /\ ret.rc = -1
  /\ outNode = NodeID(MaxNodeIdx + 1, 1)

HasSharedAddress(nodes) ==
  \E i \in DOMAIN nodes, j \in DOMAIN nodes :
    i # j /\ nodes[i].address = nodes[j].address

\* C9: construction from a node map in which two nodes share an address fails,
\* and no snapshot is produced.
C9_DuplicateAddressFails ==
  (phase # "none" /\ HasSharedAddress(nodesIn)) =>
    /\ phase = "crashed"
    /\ DOMAIN nodesConfig_ = {}
    /\ DOMAIN addrToIndex_ = {}

\* construction of three nodes, two of them with one address, failed
C9_Witness ==
  /\ phase = "crashed"
  /\ Cardinality(DOMAIN nodesIn) = 3
  /\ Cardinality({nodesIn[i].address : i \in DOMAIN nodesIn}) = 2

\* ---- sequencer weights (SpecWeights) ----
RawWeight(i) ==
  IF "SEQUENCER" \in nodesConfig_[i].roles
  THEN nodesConfig_[i].sequencer_weight
  ELSE 0
MaxRawWeight ==
  IF DOMAIN nodesConfig_ = {} THEN 0
  ELSE SetMax({RawWeight(i) : i \in DOMAIN nodesConfig_})

\* C10: after construction the largest normalized sequencer weight is exactly
\* 1 when some node has a positive sequencer weight, every normalized weight is
\* the node's weight divided by the maximum weight, and all weights stay 0
\* when every sequencer weight is 0.
C10_WeightsNormalized ==
  phase = "constructed" =>
    LET W == sequencersConfig_.weights
    IN  /\ Len(W) = getMaxNodeIdx(nodesConfig_) + 1
        /\ MaxRawWeight > 0 =>
             /\ \E k \in 1..Len(W) : W[k] = <<1, 1>>
             /\ \A k \in 1..Len(W) : W[k][1] <= W[k][2]
             /\ \A i \in DOMAIN nodesConfig_ :
                  W[i + 1][1] * MaxRawWeight = W[i + 1][2] * RawWeight(i)
        /\ MaxRawWeight = 0 => \A k \in 1..Len(W) : W[k] = <<0, 1>>

\* weights 2 and 3 normalize to 2/3 and 1
C10_Witness ==
  /\ phase = "constructed"
  /\ MaxRawWeight = 3
  /\ \E k \in 1..Len(sequencersConfig_.weights) :
       sequencersConfig_.weights[k] = <<2, 3>>

\* ---- derive operations (SpecDerive) ----
\* C11: withNodes(newNodes) returns a snapshot whose node map is newNodes, whose
\* address-to-index map and sequencer view are those of newNodes, and whose
\* metadata nodeset is the receiver's metadata nodeset restricted to the indices
\* newNodes has, in the original order; every metadata node of the result is a
\* node of the result.
C11_WithNodes ==
  (deriveOp.op = "withNodes" /\ derived.state = "ok") =>
    LET d == derived.config
        newNodes == deriveOp.nodes
        InNewNodes(n) == n \in DOMAIN newNodes
        kept == SelectSeq(receiver0.metaDataLogsConfig_.metadata_nodes, InNewNodes)
        S == d.sequencersConfig_
    IN  /\ d.nodesConfig_ = newNodes
        /\ DOMAIN d.addrToIndex_ = {newNodes[i].address : i \in DOMAIN newNodes}
        /\ \A i \in DOMAIN newNodes : d.addrToIndex_[newNodes[i].address] = i
        /\ Len(S.nodes) = getMaxNodeIdx(newNodes) + 1
        /\ Len(S.weights) = Len(S.nodes)
        /\ \A k \in 1..Len(S.nodes) :
             IF (k - 1) \in DOMAIN newNodes
                  /\ "SEQUENCER" \in newNodes[k - 1].roles
             THEN S.nodes[k] = NodeID(k - 1, newNodes[k - 1].generation)
             ELSE S.nodes[k] = InvalidNodeID /\ S.weights[k] = <<0, 1>>
        /\ d.metaDataLogsConfig_.metadata_nodes = kept
        /\ \A k \in 1..Len(kept) : kept[k] \in DOMAIN d.nodesConfig_

\* a metadata nodeset of three nodes loses one and keeps two that are not in
\* index order, and node 0 has moved to another address
C11_Witness ==
  /\ deriveOp.op = "withNodes"
  /\ derived.state = "ok"
  /\ Len(receiver0.metaDataLogsConfig_.metadata_nodes) = 3
  /\ Len(derived.config.metaDataLogsConfig_.metadata_nodes) = 2
  /\ derived.config.metaDataLogsConfig_.metadata_nodes[1]
       > derived.config.metaDataLogsConfig_.metadata_nodes[2]
  /\ derived.config.addrToIndex_ # receiver0.addrToIndex_

\* C12: every derive operation (withNodes, withVersion, withZookeeperConfig,
\* copy) returns a snapshot that carries forward the receiver's version, server
\* origin, own node id, main and included config metadata and all sub-configs,
\* except for the field the operation overrides; withVersion(v) differs from
\* the receiver only in the version, withZookeeperConfig(zk) only in the
\* zookeeper config.
C12_DeriveCarriesForward ==
  derived.state = "ok" =>
    LET d == derived.config
        r == receiver0
    IN  /\ deriveOp.op # "withVersion" => d.version_ = r.version_
        /\ d.server_origin_ = r.server_origin_
        /\ d.my_node_id_ = r.my_node_id_
        /\ d.main_config_metadata_ = r.main_config_metadata_
        /\ d.included_config_metadata_ = r.included_config_metadata_
        /\ deriveOp.op # "withZookeeperConfig" =>
             d.zookeeperConfig_ = r.zookeeperConfig_
        /\ deriveOp.op # "withNodes" =>
             /\ d.nodesConfig_ = r.nodesConfig_
             /\ d.metaDataLogsConfig_ = r.metaDataLogsConfig_
        /\ d.clusterName_ = r.clusterName_
        /\ d.clusterCreationTime_ = r.clusterCreationTime_
        /\ d.principalsConfig_ = r.principalsConfig_
        /\ d.securityConfig_ = r.securityConfig_
        /\ d.trafficShapingConfig_ = r.trafficShapingConfig_
        /\ d.traceLoggerConfig_ = r.traceLoggerConfig_
        /\ d.serverSettingsConfig_ = r.serverSettingsConfig_
        /\ d.clientSettingsConfig_ = r.clientSettingsConfig_
        /\ d.internalLogs_ = r.internalLogs_
        /\ d.ns_delimiter_ = r.ns_delimiter_
        /\ d.customFields_ = r.customFields_
        /\ deriveOp.op = "withVersion" =>
             d = [r EXCEPT !.version_ = deriveOp.version]
        /\ deriveOp.op = "withZookeeperConfig" =>
             d = [r EXCEPT !.zookeeperConfig_ = deriveOp.zk]
        /\ deriveOp.op = "copy" => d = r

\* C13: no derive operation changes its receiver: whatever derive operations
\* have run, every lookup (getNode, getNodeID) on the receiver returns what it
\* returned on the receiver as constructed, and so did the readers' last lookup.
C13_ReceiverStable ==
  /\ \A i \in DeriveIdxs :
       getNode(receiver.nodesConfig_, i, "OK")
         = getNode(receiver0.nodesConfig_, i, "OK")
  /\ \A a \in Addrs :
       getNodeID(receiver.addrToIndex_, receiver.nodesConfig_, a,
                 InvalidNodeID, "OK")
         = getNodeID(receiver0.addrToIndex_, receiver0.nodesConfig_, a,
                     InvalidNodeID, "OK")
  /\ readerCall.op = "getNode" =>
       readerRet.node = getNode(receiver0.nodesConfig_, readerCall.index, "OK").node
  /\ readerCall.op = "getNodeID" =>
       LET r == getNodeID(receiver0.addrToIndex_, receiver0.nodesConfig_,
                          readerCall.address, InvalidNodeID, "OK")
       IN  readerRet.rc = r.rc /\ readerRet.out = r.out

\* after a withNodes that dropped an address, a reader of the receiver still
\* resolves that address
C13_Witness ==
  /\ deriveOp.op = "withNodes"
  /\ derived.state = "ok"
  /\ readerCall.op = "getNodeID"
  /\ readerCall.after
  /\ readerRet.rc = 0
  /\ readerCall.address \notin DOMAIN derived.config.addrToIndex_

\* ---- fromJson / toJson (SpecJson) ----
\* C14: fromJson on a document whose log_namespace_delimiter is longer than one
\* character fails with INVALID_CONFIG and returns no snapshot, before any
\* section is parsed; a delimiter of zero or one character is accepted (a
\* failure then comes from a section parser) and is the namespace delimiter of
\* the snapshot returned.
C14_DelimiterRule ==
  (jsonPhase # "none" /\ "log_namespace_delimiter" \in DOMAIN parsed) =>
    LET delim == parsed["log_namespace_delimiter"].text
    IN  IF Len(delim) > 1
        THEN /\ jsonPhase = "failed"
             /\ jsonErr = "INVALID_CONFIG"
             /\ jsonConfig = NullConfig
             /\ jsonTrace = <<>>
        ELSE /\ jsonPhase = "failed" =>
                  /\ jsonTrace # <<>>
                  /\ parsed[jsonTrace[Len(jsonTrace)]].text = "bad"
             /\ jsonPhase \in {"parsed", "emitted"} =>
                  jsonConfig.ns_delimiter_ = delim

\* a two-character delimiter in a document whose first section is malformed
C14_Witness ==
  /\ jsonPhase = "failed"
  /\ "log_namespace_delimiter" \in DOMAIN parsed
  /\ parsed["log_namespace_delimiter"].text = "::"
  /\ "cluster" \in DOMAIN parsed
  /\ parsed["cluster"].text = "bad"

\* the top-level keys a configuration document recognizes
RecognizedKeys ==
  {"cluster", "cluster_creation_time", "version", "nodes", "metadata_logs",
   "internal_logs", "principals", "security_information", "traffic_shaping",
   "server_settings", "client_settings", "trace-logger", "zookeeper",
   "log_namespace_delimiter", "logs", "defaults", "include_log_config"}

\* C15: fromJson stores a top-level key in the custom fields iff it is not a
\* recognized key, and toJson emits every custom field with its original value
\* without a custom field replacing the value of a recognized key.
C15_CustomFieldsIffUnrecognized ==
  /\ jsonPhase \in {"parsed", "emitted"} =>
       DOMAIN jsonConfig.customFields_
         = {k \in DOMAIN parsed : k \notin RecognizedKeys}
  /\ jsonPhase = "emitted" =>
       /\ \A k \in DOMAIN jsonConfig.customFields_ :
            k \in DOMAIN json_all /\ json_all[k] = parsed[k]
       /\ \A k \in DOMAIN json_all \cap RecognizedKeys :
            json_all[k].kind = "emitted"

\* ---- toString cache (SpecCache) ----
\* the text a toString call returned, under its compression if any
TextOf(str) == IF str.kind = "gzip" THEN str.of ELSE str

\* C16: a with-logs toString call whose logs-config version equals the version
\* of the previous with-logs call, neither config modified in place, returns
\* the cached text without regenerating it; a call whose version differs from
\* the previous one regenerates the text and returns text of its own version.
C16_MemoizeAndInvalidate ==
  (toStringCall.op = "toString" /\ toStringCall.with_logs.present
     /\ toStringCall.prev.present) =>
    LET w == toStringCall.with_logs
        p == toStringCall.prev
    IN  /\ (w.version = p.version /\ ~w.modified /\ ~p.modified) =>
             /\ ~regenerated
             /\ ~toStringCall.compress => toStringRet = toStringCall.cached
        /\ w.version # p.version =>
             /\ regenerated
             /\ toStringRet # EmptyString =>
                  /\ TextOf(toStringRet).with_logs
                  /\ TextOf(toStringRet).version = w.version

====
